---- MODULE Spec2Model ----
(***************************************************************************)
(* Audio event maintenance of frigate (frigate/events/audio.py):           *)
(*   - AudioTfl: the ranking and thresholding of a model's score vector;   *)
(*   - AudioEventMaintainer: one thread per camera that reads windows off  *)
(*     a named pipe, classifies them and keeps the create / extend / end   *)
(*     lifecycle of audio events against the event API;                    *)
(*   - listen_to_audio: the process entry that starts the threads and      *)
(*     joins them on a termination signal.                                 *)
(* Times are whole seconds, scores are hundredths (0.4 is 40).             *)
(***************************************************************************)
EXTENDS Integers, Sequences, FiniteSets, TLC

VARIABLES
    \* ---- AudioTfl, one call of detect
    tensor_output,     \* the score vector the interpreter returns (res)
    threshold,         \* detect's threshold argument
    tie_low,           \* how the build's argsort orders equal scores
    raw_detections,    \* what _detect_raw returned (<<>>: not run)
    tfl_detections,    \* what detect returned
    tfl_pc,            \* "idle", "call", "raw", "done"
    \* ---- the process
    now,               \* datetime.datetime.now().timestamp()
    stop_event,        \* the mp.Event shared by every thread
    cfg_enabled,       \* camera -> camera.enabled and audio.enabled_in_config
    listen,            \* camera -> camera.audio.listen, as read at each detection
    todo,              \* the cameras listen_to_audio's for loop has yet to start
    audio_threads,     \* the list listen_to_audio appends to
    handler,           \* receiveSignal: "idle", "joining", "done", "failed"
    join_idx,          \* exit_process's position in audio_threads
    audio_enabled,     \* camera -> feature_metrics[camera]["audio_enabled"]
    detections,        \* the dict every maintainer holds: label -> record
    order,             \* the label keys of that dict, in insertion order
    pc,                \* camera -> where its thread is
    loc,               \* camera -> the locals of its thread
    pipe_file,         \* camera -> "none", "open", "closed"
    audio_listener,    \* camera -> "none", "running", "exited", "stopped"
    logpipe,           \* camera -> "open", "closed"
    fifo,              \* camera -> whether the named pipe exists
    events,            \* the event API's events, by event id
    tally,             \* whether stats is kept
    stats              \* camera -> label -> what the thread did for the label

tflvars == <<tensor_output, threshold, tie_low, raw_detections, tfl_detections, tfl_pc>>

supvars == <<cfg_enabled, listen, todo, audio_threads, handler, join_idx>>

resvars == <<pipe_file, audio_listener, logpipe, fifo>>

vars == <<tensor_output, threshold, tie_low, raw_detections, tfl_detections, tfl_pc,
          now, stop_event, cfg_enabled, listen, todo, audio_threads, handler, join_idx,
          audio_enabled, detections, order, pc, loc, pipe_file, audio_listener,
          logpipe, fifo, events, tally, stats>>

----------------------------------------------------------------------------
(* AudioTfl *)

\* the rows of the detections array, and the indices argpartition keeps
TopK == 20

\* the score below which _detect_raw stops filling rows (0.4)
RawFloor == 40

\* detect's default threshold (0.8)
DefaultThreshold == 80

\* the size of the label map; argpartition(-res, 20) needs more than 20 scores
NumClasses == 21

Classes == 0 .. (NumClasses - 1)

\* self.labels: class index -> label
labels == [i \in Classes |-> IF i = 0 THEN "speech" ELSE IF i = 1 THEN "bark" ELSE IF i = 2 THEN "yell" ELSE <<"label", i>>]

\* i is ranked before j: the higher score first; equal scores in the order the
\* build's sort leaves them (lower index first, or higher index first)
Before(res, tie, i, j) ==
    \/ res[i] > res[j]
    \/ res[i] = res[j] /\ (IF tie THEN i < j ELSE i > j)

Rank(res, tie, i) == Cardinality({j \in Classes : Before(res, tie, j, i)})

\* class_ids = np.argpartition(-res, 20)[:20]; class_ids[np.argsort(-res[class_ids])]
SortedTop(res, tie) ==
    LET rank == [i \in Classes |-> Rank(res, tie, i)]
    IN  [k \in 1 .. TopK |-> CHOOSE i \in Classes : rank[i] = k - 1]

\* class_ids = class_ids[non_zero_indices[class_ids]] with non_zero_indices = res > 0
NonZero(res, ids) == SelectSeq(ids, LAMBDA i : res[i] > 0)

FilledAll(res, ids, i) == Len(ids)

\* for i in range(count): if scores[i] < 0.4 or i == 20: break -- the number of rows filled
RECURSIVE Filled(_, _, _)
Filled(res, ids, i) ==
    IF i >= Len(ids) THEN i
    ELSE IF res[ids[i + 1]] < RawFloor \/ i = TopK THEN i
    ELSE Filled(res, ids, i + 1)

ZeroRow == [cls |-> 0, score |-> 0, box |-> 0]

\* _detect_raw: np.zeros((20, 6)) with the first rows filled
detect_raw(res, tie) ==
    LET class_ids == NonZero(res, SortedTop(res, tie))
        n == Filled(res, class_ids, 0)
    IN  [k \in 1 .. TopK |->
            IF k <= n THEN [cls |-> class_ids[k], score |-> res[class_ids[k]], box |-> -1]
            ELSE ZeroRow]

RECURSIVE KeptAbove(_, _, _)
KeptAbove(raw, th, i) ==
    IF i >= Len(raw) THEN i
    ELSE IF raw[i + 1].score <= th THEN i
    ELSE KeptAbove(raw, th, i + 1)

\* for d in raw_detections: if d[1] < threshold: break -- the number of rows appended
RECURSIVE Kept(_, _, _)
Kept(raw, th, i) ==
    IF i >= Len(raw) THEN i
    ELSE IF raw[i + 1].score < th THEN i
    ELSE Kept(raw, th, i + 1)

\* the loop of detect over the raw rows
detect_cut(raw, th) ==
    [k \in 1 .. Kept(raw, th, 0) |->
        [label |-> labels[raw[k].cls], score |-> raw[k].score, box |-> raw[k].box]]

\* AudioTfl.detect
detect(res, th, stopped, tie) ==
    IF stopped THEN <<>> ELSE detect_cut(detect_raw(res, tie), th)

----------------------------------------------------------------------------
(* The cameras, their configuration and the windows they hear *)

Cameras == {"front", "back"}

\* config.cameras.values(), in order
CameraOrder == <<"front", "back">>

\* camera.audio.listen, as configured
Listen == [c \in Cameras |-> {"bark"}]

\* the cameras whose ffmpeg exits, and whose audio_enabled value is switched,
\* while the process runs
Unsteady == {"front"}

\* the labels a maintainer can store a record for
Keys == UNION {Listen[c] : c \in Cameras}

\* camera.audio.max_not_heard, in seconds
MaxNotHeard == 1

\* camera.record.events.post_capture, in seconds
PostCapture == 5

\* the clock stops here
MaxTime == 2

\* the event API creates at most this many events
MaxEvents == 2

\* stats counts at most this many detections of a label
MaxDet == 3

\* the score vectors a window of audio can give
WindowNames == {"quiet", "bark", "both", "yell"}

Window(w) ==
    [i \in Classes |->
        CASE w = "bark" /\ i = 1 -> 95
          [] w = "both" /\ i = 1 -> 95
          [] w = "both" /\ i = 0 -> 85
          [] w = "yell" /\ i = 2 -> 90
          [] OTHER -> 5]

\* self.detector.detect(waveform) for each window, while stop_event is not set
ModelDetections ==
    [w \in WindowNames |-> detect(Window(w), DefaultThreshold, FALSE, TRUE)]

LabelsOf(ds) == [k \in 1 .. Len(ds) |-> ds[k].label]

\* the values of the detections dict: no key, None, or an event's record
Absent == [kind |-> "absent", id |-> 0, label |-> "", last_detection |-> 0]

NoneValue == [kind |-> "none", id |-> 0, label |-> "", last_detection |-> 0]

EventRecord(id, l, t) == [kind |-> "event", id |-> id, label |-> l, last_detection |-> t]

\* off and restarted are kept when tally is set: the thread has returned from
\* detect_audio at its first test, and has run read_audio's except clause
NoLocals == [queue |-> <<>>, label |-> "", now |-> 0, len |-> 0, idx |-> 0, detection |-> NoneValue, err |-> "",
             off |-> FALSE, restarted |-> FALSE]

NoStats == [det |-> 0, post |-> 0, upd |-> 0, failed |-> FALSE, late |-> FALSE]

Set(f, c, v) == [f EXCEPT ![c] = v]

\* a thread that has ended: run returned, or an exception left it
Ended(c) == pc[c] \in {"stopped", "crashed"}

\* an exception nothing catches ends the thread where it is
Raise(c, err) ==
    /\ pc' = Set(pc, c, "crashed")
    /\ loc' = Set(loc, c, [loc[c] EXCEPT !.err = err])

\* after one detection: the next one of the for loop, or expire_detections
AfterDetection(c) == IF Len(loc[c].queue) > 1 THEN "handle" ELSE "expire"

\* stats, kept when tally is set
Count(c, l, st) ==
    IF tally THEN [stats EXCEPT ![c][l] = st] ELSE stats

----------------------------------------------------------------------------
(* AudioEventMaintainer: the thread of camera c *)

\* restart_audio_pipe, called first by run: mkfifo (an existing pipe is passed
\* over) and start_or_restart_ffmpeg
RestartAudioPipe(c) ==
    /\ pc[c] = "start"
    /\ fifo' = Set(fifo, c, TRUE)
    /\ audio_listener' = Set(audio_listener, c, "running")
    /\ pc' = Set(pc, c, "loop")
    /\ UNCHANGED <<tflvars, supvars, now, stop_event, audio_enabled, detections, order,
                   loc, pipe_file, logpipe, events, tally, stats>>

\* run: while not self.stop_event.is_set()
LoopCheck(c) ==
    /\ pc[c] = "loop"
    /\ pc' = Set(pc, c, IF stop_event THEN "close" ELSE "read")
    /\ UNCHANGED <<tflvars, supvars, resvars, now, stop_event, audio_enabled, detections,
                   order, loc, events, tally, stats>>

\* the labels detect_audio hands to handle_detection, in order: if label not in
\* self.config.audio.listen: continue
Listened(c, ds) == SelectSeq(LabelsOf(ds), LAMBDA l : l \in listen[c])

\* no label of the queue has used up what stats counts
Countable(c, q) ==
    \A k \in 1 .. Len(q) : tally => stats[c][q[k]].det < MaxDet

\* detect_audio goes on to the detector whatever the audio_enabled value
DetectAlways(c, w) ==
    LET q == Listened(c, IF stop_event THEN <<>> ELSE ModelDetections[w])
    IN  /\ pc' = Set(pc, c, IF q = <<>> THEN "expire" ELSE "handle")
        /\ loc' = Set(loc, c, [loc[c] EXCEPT !.queue = q])

\* if not self.feature_metrics[self.config.name]["audio_enabled"].value: return
Skip(c) ==
    /\ pc' = Set(pc, c, "loop")
    /\ loc' = Set(loc, c, [loc[c] EXCEPT !.off = @ \/ tally])

\* detect_audio up to its for loop, on a full window w
DetectAudio(c, w) ==
    IF ~audio_enabled[c] THEN Skip(c)
    ELSE
        LET q == Listened(c, IF stop_event THEN <<>> ELSE ModelDetections[w])
        IN  /\ Countable(c, q)
            /\ pc' = Set(pc, c, IF q = <<>> THEN "expire" ELSE "handle")
            /\ loc' = Set(loc, c, [loc[c] EXCEPT !.queue = q])

\* detect_audio on a read that came back short: the tensor has the wrong shape
\* and set_tensor raises, unless detect_audio or detect returns before it
DetectShort(c) ==
    IF ~audio_enabled[c] THEN Skip(c)
    ELSE IF stop_event THEN
        /\ pc' = Set(pc, c, "expire")
        /\ loc' = Set(loc, c, [loc[c] EXCEPT !.queue = <<>>])
    ELSE Raise(c, "ValueError")

OpenAgain(c) == IF pipe_file[c] = "none" THEN "open" ELSE "reopened"

\* if self.pipe_file is None: self.pipe_file = open(self.pipe, "rb")
OpenPipe(c) == IF pipe_file[c] = "none" THEN "open" ELSE pipe_file[c]

\* read_audio: open the pipe on first use, read a window and hand it to
\* detect_audio. The open blocks until ffmpeg has the pipe open for writing;
\* once ffmpeg has exited the read raises BrokenPipeError or comes back short.
ReadAudio(c) ==
    /\ pc[c] = "read"
    /\ pipe_file[c] = "none" => audio_listener[c] = "running"
    /\ pipe_file' = Set(pipe_file, c, OpenPipe(c))
    /\ \/ /\ audio_listener[c] = "running"
          /\ \E w \in WindowNames : DetectAudio(c, w)
       \/ /\ audio_listener[c] = "exited"
          /\ pc' = Set(pc, c, "broken")
          /\ loc' = loc
       \/ /\ audio_listener[c] = "exited"
          /\ DetectShort(c)
    /\ UNCHANGED <<tflvars, supvars, now, stop_event, audio_enabled, detections, order,
                   audio_listener, logpipe, fifo, events, tally, stats>>

\* read_audio's except BrokenPipeError: self.logpipe.dump(), restart_audio_pipe()
Recover(c) ==
    /\ pc[c] = "broken"
    /\ logpipe' = Set(logpipe, c, "open")
    /\ fifo' = Set(fifo, c, TRUE)
    /\ audio_listener' = Set(audio_listener, c, "running")
    /\ pc' = Set(pc, c, "loop")
    /\ loc' = Set(loc, c, [loc[c] EXCEPT !.restarted = @ \/ tally])
    /\ UNCHANGED <<tflvars, supvars, now, stop_event, audio_enabled, detections, order,
                   pipe_file, events, tally, stats>>

HeardNever(l) == FALSE

\* if self.detections.get(label): neither a missing key nor None is truthy
Heard(l) == detections[l].kind = "event"

\* handle_detection's test, self.detections.get(label): a record goes on to the
\* timestamp assignment, anything else sends the create request
HandleDetection(c) ==
    /\ pc[c] = "handle"
    /\ LET l == Head(loc[c].queue)
       IN  /\ loc' = Set(loc, c, [loc[c] EXCEPT !.label = l])
           /\ IF Heard(l) THEN
                  /\ pc' = Set(pc, c, "update")
                  /\ stats' = stats
              ELSE
                  /\ pc' = Set(pc, c, "post")
                  /\ stats' = Count(c, l, [stats[c][l] EXCEPT !.post = @ + 1])
    /\ UNCHANGED <<tflvars, supvars, resvars, now, stop_event, audio_enabled, detections,
                   order, events, tally>>

\* self.detections[label]["last_detection"] = now; a slot that became None
\* since the test raises TypeError
UpdateDetection(c) ==
    /\ pc[c] = "update"
    /\ LET l == loc[c].label
       IN  IF detections[l].kind = "event" THEN
               /\ detections' = [detections EXCEPT ![l].last_detection = now]
               /\ pc' = Set(pc, c, AfterDetection(c))
               /\ loc' = Set(loc, c, [loc[c] EXCEPT !.queue = Tail(@)])
               /\ stats' = Count(c, l, [stats[c][l] EXCEPT !.det = @ + 1, !.upd = @ + 1])
           ELSE
               /\ Raise(c, "TypeError")
               /\ UNCHANGED <<detections, stats>>
    /\ UNCHANGED <<tflvars, supvars, resvars, now, stop_event, audio_enabled, order,
                   events, tally>>

\* the record handle_detection stores on a 200
StoreDetection(c, l, id) ==
    /\ detections' = [detections EXCEPT ![l] = EventRecord(id, l, now)]
    /\ order' = IF detections[l].kind = "absent" THEN Append(order, l) ELSE order

\* requests.post(".../create") comes back: 200 with the new event's id, another
\* status, or an exception of requests (the API cannot be reached)
PostReturn(c) ==
    /\ pc[c] = "post"
    /\ LET l == loc[c].label
       IN  \/ /\ Len(events) < MaxEvents
              /\ events' = Append(events, [camera |-> c, label |-> l, ends |-> 0, end_time |-> 0, ended_by |-> {}, expired |-> FALSE])
              /\ StoreDetection(c, l, Len(events) + 1)
              /\ pc' = Set(pc, c, AfterDetection(c))
              /\ loc' = Set(loc, c, [loc[c] EXCEPT !.queue = Tail(@)])
              /\ stats' = Count(c, l, [stats[c][l] EXCEPT !.det = @ + 1])
           \/ /\ pc' = Set(pc, c, AfterDetection(c))
              /\ loc' = Set(loc, c, [loc[c] EXCEPT !.queue = Tail(@)])
              /\ stats' = Count(c, l, [stats[c][l] EXCEPT !.det = @ + 1, !.failed = TRUE])
              /\ UNCHANGED <<detections, order, events>>
           \/ /\ Raise(c, "ConnectionError")
              /\ stats' = Count(c, l, [stats[c][l] EXCEPT !.failed = TRUE])
              /\ UNCHANGED <<detections, order, events>>
    /\ UNCHANGED <<tflvars, supvars, resvars, now, stop_event, audio_enabled, tally>>

\* expire_detections: now = datetime.datetime.now().timestamp(), and the
\* iterator over self.detections.values(), which remembers the dict's size
ExpireBegin(c) ==
    /\ pc[c] = "expire"
    /\ loc' = Set(loc, c, [loc[c] EXCEPT !.now = now, !.len = Len(order), !.idx = 1])
    /\ pc' = Set(pc, c, "iter")
    /\ UNCHANGED <<tflvars, supvars, resvars, now, stop_event, audio_enabled, detections,
                   order, events, tally, stats>>

\* now - detection.get("last_detection", now) > self.config.audio.max_not_heard
Stale(t, detection) == t - detection.last_detection > MaxNotHeard

\* the end_time of the end request
EndTime(detection) == detection.last_detection + PostCapture

\* the event API takes an end request for event id
EndEvent(c, id, t) ==
    [events EXCEPT ![id] = [@ EXCEPT !.ends = @ + 1, !.end_time = t, !.ended_by = @ \cup {c}]]

\* one turn of expire_detections' for loop. The iterator raises RuntimeError
\* when the dict has changed size; the values under the camera names (the
\* feature metrics) have no last_detection and are passed over; None is passed
\* over; a stale record has its end request sent.
ExpireNext(c) ==
    /\ pc[c] = "iter"
    /\ IF Len(order) # loc[c].len THEN
           /\ Raise(c, "RuntimeError")
           /\ events' = events
       ELSE IF loc[c].idx > loc[c].len THEN
           /\ pc' = Set(pc, c, "loop")
           /\ UNCHANGED <<loc, events>>
       ELSE
           LET detection == detections[order[loc[c].idx]]
           IN  IF detection.kind = "event" /\ Stale(loc[c].now, detection) THEN
                   /\ events' = EndEvent(c, detection.id, EndTime(detection))
                   /\ loc' = Set(loc, c, [loc[c] EXCEPT !.detection = detection])
                   /\ pc' = Set(pc, c, "put")
               ELSE
                   /\ loc' = Set(loc, c, [loc[c] EXCEPT !.idx = @ + 1])
                   /\ UNCHANGED <<pc, events>>
    /\ UNCHANGED <<tflvars, supvars, resvars, now, stop_event, audio_enabled, detections,
                   order, tally, stats>>

RemoveNothing(detection) == detections

\* self.detections[detection["label"]] = None
RemoveDetection(detection) == [detections EXCEPT ![detection.label] = NoneValue]

\* the event whose end request came back has had its record's slot cleared
Expired(id) == [events EXCEPT ![id].expired = TRUE]

\* requests.put(".../end") comes back, with whatever status, or raises
PutReturn(c) ==
    /\ pc[c] = "put"
    /\ \/ /\ detections' = RemoveDetection(loc[c].detection)
          /\ events' = Expired(loc[c].detection.id)
          /\ loc' = Set(loc, c, [loc[c] EXCEPT !.idx = @ + 1, !.detection = NoneValue])
          /\ pc' = Set(pc, c, "iter")
       \/ /\ Raise(c, "ConnectionError")
          /\ UNCHANGED <<detections, events>>
    /\ UNCHANGED <<tflvars, supvars, resvars, now, stop_event, audio_enabled, order,
                   tally, stats>>

\* run after its loop: self.pipe_file.close(), stop_ffmpeg, self.logpipe.close();
\* pipe_file is None until the first read_audio, and None has no close
Cleanup(c) ==
    /\ pc[c] = "close"
    /\ IF pipe_file[c] = "none" THEN
           /\ Raise(c, "AttributeError")
           /\ UNCHANGED <<pipe_file, audio_listener, logpipe>>
       ELSE
           /\ pipe_file' = Set(pipe_file, c, "closed")
           /\ audio_listener' = Set(audio_listener, c, "stopped")
           /\ logpipe' = Set(logpipe, c, "closed")
           /\ pc' = Set(pc, c, "stopped")
           /\ loc' = loc
    /\ UNCHANGED <<tflvars, supvars, now, stop_event, audio_enabled, detections, order,
                   fifo, events, tally, stats>>

----------------------------------------------------------------------------
(* What surrounds the threads *)

\* a record of label l has gone unheard for longer than max_not_heard at time t
Unheard(l, t) == detections[l].kind = "event" /\ Stale(t, detections[l])

\* the clock
Tick ==
    /\ now < MaxTime
    /\ now' = now + 1
    /\ stats' = IF tally
                THEN [c \in Cameras |-> [l \in Keys |->
                         [stats[c][l] EXCEPT !.late = @ \/ Unheard(l, now + 1)]]]
                ELSE stats
    /\ UNCHANGED <<tflvars, supvars, resvars, stop_event, audio_enabled, detections,
                   order, pc, loc, events, tally>>

\* the ffmpeg process of camera c exits: the pipe loses its writer, and what
\* ffmpeg logged waits in the log pipe
FfmpegExit(c) ==
    /\ audio_listener[c] = "running"
    /\ audio_listener' = Set(audio_listener, c, "exited")
    /\ logpipe' = Set(logpipe, c, IF logpipe[c] = "closed" THEN "closed" ELSE "pending")
    /\ UNCHANGED <<tflvars, supvars, now, stop_event, audio_enabled, detections, order,
                   pc, loc, pipe_file, fifo, events, tally, stats>>

\* the audio_enabled value of camera c is switched from outside
SetAudioEnabled(c) ==
    /\ cfg_enabled[c]
    /\ audio_enabled' = Set(audio_enabled, c, ~audio_enabled[c])
    /\ UNCHANGED <<tflvars, supvars, resvars, now, stop_event, detections, order, pc,
                   loc, events, tally, stats>>

----------------------------------------------------------------------------
(* listen_to_audio *)

ToStartAll == CameraOrder

\* for camera in config.cameras.values(): if camera.enabled and
\* camera.audio.enabled_in_config -- the cameras the loop gives a thread, in order
ToStart == SelectSeq(CameraOrder, LAMBDA c : cfg_enabled[c])

\* the main thread is inside receiveSignal, or an exception has ended it
MainHeld == handler \in {"joining", "failed"}

\* audio = AudioEventMaintainer(...); audio_threads.append(audio)
AppendThread ==
    /\ ~MainHeld
    /\ todo # <<>>
    /\ pc[Head(todo)] = "new"
    /\ pc' = Set(pc, Head(todo), "ready")
    /\ audio_threads' = Append(audio_threads, Head(todo))
    /\ UNCHANGED <<tflvars, resvars, now, stop_event, cfg_enabled, listen, todo, handler, join_idx,
                   audio_enabled, detections, order, loc, events, tally, stats>>

\* audio.start()
StartThread ==
    /\ ~MainHeld
    /\ todo # <<>>
    /\ pc[Head(todo)] = "ready"
    /\ pc' = Set(pc, Head(todo), "start")
    /\ todo' = Tail(todo)
    /\ UNCHANGED <<tflvars, resvars, now, stop_event, cfg_enabled, listen, audio_threads, handler,
                   join_idx, audio_enabled, detections, order, loc, events, tally, stats>>

\* SIGTERM or SIGINT: receiveSignal sets stop_event and enters exit_process
ReceiveSignal ==
    /\ handler = "idle"
    /\ stop_event' = TRUE
    /\ handler' = "joining"
    /\ join_idx' = 1
    /\ UNCHANGED <<tflvars, resvars, now, cfg_enabled, listen, todo, audio_threads, audio_enabled,
                   detections, order, pc, loc, events, tally, stats>>

\* exit_process: thread.join() for each thread of audio_threads in turn; join
\* raises RuntimeError on a thread that was not started
ExitProcess ==
    /\ handler = "joining"
    /\ IF join_idx > Len(audio_threads) THEN
           /\ handler' = "done"
           /\ join_idx' = join_idx
       ELSE IF pc[audio_threads[join_idx]] = "ready" THEN
           /\ handler' = "failed"
           /\ join_idx' = join_idx
       ELSE
           /\ Ended(audio_threads[join_idx])
           /\ join_idx' = join_idx + 1
           /\ handler' = handler
    /\ UNCHANGED <<tflvars, resvars, now, stop_event, cfg_enabled, listen, todo, audio_threads,
                   audio_enabled, detections, order, pc, loc, events, tally, stats>>

----------------------------------------------------------------------------
(* The process *)

TflIdle ==
    /\ tensor_output = [i \in Classes |-> 0]
    /\ threshold = DefaultThreshold
    /\ tie_low = TRUE
    /\ raw_detections = <<>>
    /\ tfl_detections = <<>>
    /\ tfl_pc = "idle"

\* listen_to_audio has installed its signal handlers and is about to loop
InitProcess ==
    /\ now = 0
    /\ listen = Listen
    /\ todo = ToStart
    /\ audio_threads = <<>>
    /\ handler = "idle"
    /\ join_idx = 0
    /\ audio_enabled = [c \in Cameras |-> TRUE]
    /\ detections = [l \in Keys |-> Absent]
    /\ order = <<>>
    /\ pc = [c \in Cameras |-> "new"]
    /\ loc = [c \in Cameras |-> NoLocals]
    /\ pipe_file = [c \in Cameras |-> "none"]
    /\ audio_listener = [c \in Cameras |-> "none"]
    /\ logpipe = [c \in Cameras |-> "open"]
    /\ fifo = [c \in Cameras |-> FALSE]
    /\ events = <<>>
    /\ stats = [c \in Cameras |-> [l \in Keys |-> NoStats]]

Init ==
    /\ TflIdle
    /\ cfg_enabled \in [Cameras -> BOOLEAN]
    /\ tally = FALSE
    /\ stop_event = FALSE
    /\ InitProcess

Thread(c) ==
    \/ RestartAudioPipe(c)
    \/ LoopCheck(c)
    \/ ReadAudio(c)
    \/ Recover(c)
    \/ HandleDetection(c)
    \/ UpdateDetection(c)
    \/ PostReturn(c)
    \/ ExpireBegin(c)
    \/ ExpireNext(c)
    \/ PutReturn(c)
    \/ Cleanup(c)

Next ==
    \/ \E c \in Cameras : Thread(c)
    \/ \E c \in Unsteady : FfmpegExit(c)
    \/ \E c \in Unsteady : SetAudioEnabled(c)
    \/ Tick
    \/ AppendThread
    \/ StartThread
    \/ ReceiveSignal
    \/ ExitProcess

Spec == Init /\ [][Next]_vars

\* one camera is enabled for audio, and stats is kept for it
InitOne ==
    /\ TflIdle
    /\ cfg_enabled = [c \in Cameras |-> c = "front"]
    /\ tally = TRUE
    /\ stop_event = FALSE
    /\ InitProcess

SpecOne == InitOne /\ [][Next]_vars

\* label l is taken out of camera c's audio.listen while the thread runs
Unlisten(c, l) ==
    /\ cfg_enabled[c]
    /\ l \in listen[c]
    /\ listen' = Set(listen, c, listen[c] \ {l})
    /\ UNCHANGED <<tflvars, resvars, now, stop_event, cfg_enabled, todo, audio_threads,
                   handler, join_idx, audio_enabled, detections, order, pc, loc, events,
                   tally, stats>>

\* one camera is enabled for audio, and its listen set can lose a label
InitGate ==
    /\ TflIdle
    /\ cfg_enabled = [c \in Cameras |-> c = "front"]
    /\ tally = FALSE
    /\ stop_event = FALSE
    /\ InitProcess

NextGate ==
    \/ Next
    \/ \E c \in Unsteady, l \in Keys : Unlisten(c, l)

SpecGate == InitGate /\ [][NextGate]_vars

----------------------------------------------------------------------------
(* One call of AudioTfl.detect, on the score vectors below *)

\* the classes whose scores vary; the other classes share one score
Varied == {0, 1, 20}

ScoreValues == {-10, 0, 30, 40, 81, 82, 95}

Background == {0, 30, 81}

Thresholds == {0, 40, 80, 96}

ScoreVector(v, bg) == [i \in Classes |-> IF i \in Varied THEN v[i] ELSE bg]

procvars == <<now, cfg_enabled, listen, todo, audio_threads, handler, join_idx, audio_enabled,
              detections, order, pc, loc, pipe_file, audio_listener, logpipe, fifo,
              events, tally, stats>>

\* detect goes through _detect_raw and its loop although stop_event is set
DetectThrough ==
    /\ tfl_pc = "call"
    /\ stop_event
    /\ raw_detections' = detect_raw(tensor_output, tie_low)
    /\ tfl_detections' = detect_cut(detect_raw(tensor_output, tie_low), threshold)
    /\ tfl_pc' = "done"
    /\ UNCHANGED <<tensor_output, threshold, tie_low, stop_event, procvars>>

\* detect: if self.stop_event.is_set(): return detections
DetectStopped ==
    /\ tfl_pc = "call"
    /\ stop_event
    /\ tfl_detections' = <<>>
    /\ tfl_pc' = "done"
    /\ UNCHANGED <<tensor_output, threshold, tie_low, raw_detections, stop_event, procvars>>

\* detect: raw_detections = self._detect_raw(tensor_input)
DetectRaw ==
    /\ tfl_pc = "call"
    /\ ~stop_event
    /\ raw_detections' = detect_raw(tensor_output, tie_low)
    /\ tfl_pc' = "raw"
    /\ UNCHANGED <<tensor_output, threshold, tie_low, tfl_detections, stop_event, procvars>>

\* detect: the loop over raw_detections, and the return
DetectReturn ==
    /\ tfl_pc = "raw"
    /\ tfl_detections' = detect_cut(raw_detections, threshold)
    /\ tfl_pc' = "done"
    /\ UNCHANGED <<tensor_output, threshold, tie_low, raw_detections, stop_event, procvars>>

InitTfl ==
    /\ \E v \in [Varied -> ScoreValues], bg \in Background : tensor_output = ScoreVector(v, bg)
    /\ threshold \in Thresholds
    /\ tie_low \in BOOLEAN
    /\ raw_detections = <<>>
    /\ tfl_detections = <<>>
    /\ tfl_pc = "call"
    /\ stop_event \in BOOLEAN
    /\ cfg_enabled = [c \in Cameras |-> FALSE]
    /\ tally = FALSE
    /\ InitProcess

NextTfl ==
    \/ DetectStopped
    \/ DetectRaw
    \/ DetectReturn

SpecTfl == InitTfl /\ [][NextTfl]_vars

----------------------------------------------------------------------------
(* Claims *)

\* the events the API holds for label l
EventsOf(l) == {id \in DOMAIN events : events[id].label = l}

\* C1 (SpecOne): while every detection of a label by the one camera thread came
\* within max_not_heard of the one before, and no create request failed, the
\* detections of the label so far have sent exactly one create request, every
\* other detection has only assigned last_detection, and no end request was sent.
C1_Debounce ==
    \A l \in Keys :
        LET st == stats["front"][l]
        IN  (st.det >= 1 /\ ~st.failed /\ ~st.late) =>
                /\ st.post = 1
                /\ st.upd = st.det - 1
                /\ Cardinality(EventsOf(l)) = 1
                /\ \A id \in EventsOf(l) : events[id].ends = 0

\* three detections of bark, one create, two updates
C1_Witness ==
    LET st == stats["front"]["bark"]
    IN  st.det = 3 /\ st.upd = 2 /\ st.post = 1 /\ ~st.failed /\ ~st.late

\* what detect makes of a raw row
Detection(row) == [label |-> labels[row.cls], score |-> row.score, box |-> row.box]

\* C7 (SpecTfl): what detect returns is the raw rows, in their order, up to the
\* first row whose score is below the threshold: every row returned has a score
\* of at least the threshold, and the row after the last one returned, if there
\* is one, has a score below it (so nothing is returned when the threshold is
\* above every raw score).
C7_PrefixCut ==
    (tfl_pc = "done" /\ ~stop_event) =>
        LET n == Len(tfl_detections)
        IN  /\ n <= Len(raw_detections)
            /\ \A k \in 1 .. n :
                   /\ tfl_detections[k] = Detection(raw_detections[k])
                   /\ raw_detections[k].score >= threshold
            /\ n < Len(raw_detections) => raw_detections[n + 1].score < threshold

\* threshold 0.8 on raw scores 0.95, 0.82, 0.81 and nothing else above it: the
\* first three rows are returned
C7_Witness ==
    /\ tfl_pc = "done"
    /\ threshold = 80
    /\ Len(tfl_detections) = 3
    /\ <<tfl_detections[1].score, tfl_detections[2].score, tfl_detections[3].score>> = <<95, 82, 81>>
    /\ raw_detections[4].score < 80

\* the scores of the raw rows do not go up
NonIncreasing(raw) == \A k \in 1 .. (Len(raw) - 1) : raw[k].score >= raw[k + 1].score

\* C8 as stated (SpecTfl): _detect_raw returns at most 20 entries, none with a
\* score that is not positive, in non-increasing order of score.
C8_NoNonPositiveEntry ==
    raw_detections # <<>> =>
        /\ Len(raw_detections) <= TopK
        /\ \A k \in 1 .. Len(raw_detections) : raw_detections[k].score > 0
        /\ NonIncreasing(raw_detections)

\* C8 as amended (SpecTfl): _detect_raw returns 20 rows, each either a scored
\* row (the score of its class, at least 0.4) or an all-zero padding row, never
\* a negative score, the padding after every scored row, in non-increasing order
\* of score.
C8_RawRanking ==
    raw_detections # <<>> =>
        /\ Len(raw_detections) = TopK
        /\ \A k \in 1 .. Len(raw_detections) :
               \/ raw_detections[k] = ZeroRow
               \/ /\ raw_detections[k].score >= RawFloor
                  /\ raw_detections[k].score = tensor_output[raw_detections[k].cls]
                  /\ \A j \in 1 .. k : raw_detections[j] # ZeroRow
        /\ NonIncreasing(raw_detections)

\* scored rows followed by padding
C8_Witness ==
    /\ tfl_pc = "raw"
    /\ raw_detections[1].score = 95
    /\ raw_detections[2].score = 40
    /\ raw_detections[3] = ZeroRow

\* more than 20 scores above the floor: every row is a scored row
C8_WitnessFull ==
    /\ tfl_pc = "raw"
    /\ \A i \in Classes : tensor_output[i] >= RawFloor
    /\ \A k \in 1 .. TopK : raw_detections[k] # ZeroRow

\* a thread is waiting for the end request of event id to come back
Ending(id) == \E c \in Cameras : pc[c] = "put" /\ loc[c].detection.id = id

\* the record of event id is in the dict
Held(id) == \E l \in Keys : detections[l].kind = "event" /\ detections[l].id = id

\* C2 as stated (Spec): an event gets no end request while the clock is within
\* max_not_heard of its last_detection; it gets exactly one; while the request is
\* out, its end_time is the record's last_detection plus post_capture; and once
\* the request is over the record is gone from the dict.
C2_Expiry ==
    \A id \in DOMAIN events :
        events[id].ends >= 1 =>
            /\ events[id].ends = 1
            /\ now - (events[id].end_time - PostCapture) > MaxNotHeard
            /\ \A c \in Cameras :
                   (pc[c] = "put" /\ loc[c].detection.id = id /\ Held(id)) =>
                       events[id].end_time = detections[events[id].label].last_detection + PostCapture
            /\ ~Ending(id) => ~Held(id)

\* C3 as stated (Spec): the records are private to a camera: a thread assigns
\* last_detection only to a record of an event its own camera created, and an
\* event is ended only by the thread of the camera that created it.
C3_PrivateRecords ==
    /\ \A c \in Cameras :
           (pc[c] = "update" /\ Heard(loc[c].label)) =>
               events[detections[loc[c].label].id].camera = c
    /\ \A id \in DOMAIN events : events[id].ended_by \subseteq {events[id].camera}

\* C4 (Spec): once an event's end request has come back and the slot of its
\* record was cleared, no record of the dict carries that event again; a
\* detection that finds the cleared slot sends a create request; and the record
\* stored on a 200 carries the event the API has just created.
C4_Redetect ==
    /\ [](\A l \in Keys : detections[l].kind = "event" => ~events[detections[l].id].expired)
    /\ [][\A c \in Cameras :
            /\ (pc[c] = "handle" /\ pc'[c] # "handle" /\ detections[Head(loc[c].queue)].kind = "none")
                   => pc'[c] = "post"
            /\ (pc[c] = "post" /\ Len(events') > Len(events))
                   => /\ detections'[loc[c].label] = EventRecord(Len(events'), loc[c].label, now)
                      /\ events'[Len(events')].ends = 0]_vars

\* event 1 has expired and a later detection has stored the record of event 2
C4_Witness ==
    /\ Len(events) = 2
    /\ events[1].expired
    /\ detections["bark"].kind = "event"
    /\ detections["bark"].id = 2

\* C5 as stated (Spec): a create request that fails stores nothing, leaves the
\* dict as it was, and the thread goes on with its loop.
C5_CreateFailure ==
    [][\A c \in Cameras :
          (pc[c] = "post" /\ pc'[c] # "post" /\ events' = events) =>
              /\ detections' = detections
              /\ pc'[c] \in {"handle", "expire"}]_vars

\* C6 as stated (Spec): whether or not the end request succeeded, once it is
\* over the record is gone from the dict, and no event gets a second end request.
C6_AtMostOnceClose ==
    \A id \in DOMAIN events :
        /\ events[id].ends <= 1
        /\ (events[id].ends = 1 /\ ~Ending(id)) => ~Held(id)

\* C9 as stated (Spec): a thread that leaves its loop on stop_event ends with the
\* pipe closed, ffmpeg stopped and the log pipe closed.
C9_ShutdownCleanup ==
    \A c \in Cameras :
        (Ended(c) /\ loc[c].err \in {"", "AttributeError"}) =>
            /\ pc[c] = "stopped"
            /\ pipe_file[c] = "closed"
            /\ audio_listener[c] = "stopped"
            /\ logpipe[c] = "closed"

\* C10 as stated (Spec): a read of a pipe whose writer is gone leads to the
\* recovery (dump the log pipe, make the pipe, restart ffmpeg) and back to the
\* loop, and a thread ends only once stop_event is set.
C10_Recovery ==
    /\ [](\A c \in Cameras : Ended(c) => stop_event)
    /\ [][\A c \in Cameras :
            /\ (pc[c] = "read" /\ pc'[c] # "read" /\ audio_listener[c] = "exited")
                   => pc'[c] = "broken"
            /\ (pc[c] = "broken" /\ pc'[c] # "broken")
                   => /\ pc'[c] = "loop"
                      /\ audio_listener'[c] = "running"
                      /\ logpipe'[c] = "open"
                      /\ fifo'[c]]_vars

\* C11 (SpecOne): the read of an iteration does not wait on the audio_enabled
\* value: the thread at read_audio with ffmpeg running can always read, and every
\* read leaves the pipe open. An iteration that finds the value false goes
\* straight back to the loop (or to the recovery of a broken pipe): no detections
\* are queued, no create request is sent, no record is assigned and no end
\* request is sent.
C11_DisabledFlag ==
    /\ [](\A c \in Cameras :
             (pc[c] = "read" /\ audio_listener[c] = "running") => ENABLED ReadAudio(c))
    /\ [][\A c \in Cameras :
            (pc[c] = "read" /\ pc'[c] # "read") =>
                /\ pipe_file'[c] = "open"
                /\ ~audio_enabled[c] =>
                       /\ pc'[c] \in {"loop", "broken"}
                       /\ loc'[c].queue = <<>>
                       /\ detections' = detections
                       /\ order' = order
                       /\ events' = events]_vars

\* an iteration has found the value false while the record of bark had gone
\* unheard for longer than max_not_heard: the event has no end request
C11_Witness ==
    /\ loc["front"].off
    /\ pc["front"] = "loop"
    /\ ~audio_enabled["front"]
    /\ pipe_file["front"] = "open"
    /\ Unheard("bark", now)
    /\ events[detections["bark"].id].ends = 0

\* a thread that was started and has not ended
Running(c) == pc[c] \notin {"new", "ready"} /\ ~Ended(c)

\* C12 as stated (Spec): a termination signal, whenever it comes, sets stop_event;
\* receiveSignal never fails; it returns only once every thread of audio_threads
\* has ended; and no thread runs once it has returned.
C12_SupervisorShutdown ==
    /\ [](handler # "failed")
    /\ [](handler = "done" => \A c \in Cameras : ~Running(c))
    /\ [][(handler = "idle" /\ handler' # "idle") => stop_event']_vars
    /\ [][(handler # "done" /\ handler' = "done") =>
              \A k \in 1 .. Len(audio_threads) : Ended(audio_threads[k])]_vars

\* C13 as stated (SpecGate): detect_audio hands to handle_detection only labels
\* of the camera's listen set, so only such a label gets a create request and a
\* record; a stale record whose label has left the listen set still has its end
\* request sent by the expire pass that visits it; and once that request is over
\* the record is gone from the dict.
C13_ListenGate ==
    /\ [](\A id \in DOMAIN events :
             (events[id].ends >= 1 /\ ~Ending(id)
                 /\ events[id].label \notin listen[events[id].camera]) => ~Held(id))
    /\ [][\A c \in Cameras :
            /\ (pc[c] = "read" /\ pc'[c] # "read") =>
                   \A k \in 1 .. Len(loc'[c].queue) : loc'[c].queue[k] \in listen[c]
            /\ (pc[c] = "post" /\ Len(events') > Len(events)) =>
                   loc[c].label = Head(loc[c].queue)
            /\ (/\ pc[c] = "iter"
                /\ <<pc'[c], loc'[c]>> # <<pc[c], loc[c]>>
                /\ Len(order) = loc[c].len
                /\ loc[c].idx <= loc[c].len
                /\ detections[order[loc[c].idx]].kind = "event"
                /\ Stale(loc[c].now, detections[order[loc[c].idx]])
                /\ order[loc[c].idx] \notin listen[c]) =>
                   /\ pc'[c] = "put"
                   /\ events'[detections[order[loc[c].idx]].id].ends
                          = events[detections[order[loc[c].idx]].id].ends + 1]_vars

\* camera c has a thread in audio_threads
Constructed(c) == \E k \in 1 .. Len(audio_threads) : audio_threads[k] = c

\* C14 (Spec): listen_to_audio constructs a thread only for a camera that is
\* enabled and has audio enabled in its configuration, and never two for one
\* camera; a camera without a thread in audio_threads has had nothing constructed
\* or started; and once the for loop is through, every such camera has exactly
\* one thread, and it was started.
C14_SupervisorStart ==
    /\ \A k \in 1 .. Len(audio_threads) : cfg_enabled[audio_threads[k]]
    /\ \A j, k \in 1 .. Len(audio_threads) : audio_threads[j] = audio_threads[k] => j = k
    /\ \A c \in Cameras : ~Constructed(c) => pc[c] = "new"
    /\ todo = <<>> =>
           \A c \in Cameras :
               cfg_enabled[c] => (Constructed(c) /\ pc[c] \notin {"new", "ready"})

\* of two cameras one is enabled for audio: the loop is through, the camera has
\* its started thread and the other camera has none
C14_Witness ==
    /\ cfg_enabled = [c \in Cameras |-> c = "back"]
    /\ todo = <<>>
    /\ audio_threads = <<"back">>
    /\ pc["back"] = "read"
    /\ pc["front"] = "new"

\* C15 (SpecTfl): a call of detect that finds stop_event set returns the empty
\* list and has not run _detect_raw, whatever the score vector and the threshold.
C15_FastExit ==
    (tfl_pc = "done" /\ stop_event) =>
        /\ tfl_detections = <<>>
        /\ raw_detections = <<>>

\* stop_event set, threshold 0 and a score of 0.95 in the vector: nothing returned
C15_Witness ==
    /\ tfl_pc = "done"
    /\ stop_event
    /\ threshold = 0
    /\ tensor_output[1] = 95
    /\ tfl_detections = <<>>
    /\ raw_detections = <<>>

\* the thread of camera c assigns last_detection in this step
Updates(c) == pc[c] = "update" /\ pc'[c] \in {"handle", "expire"}

\* C16 as stated (Spec): with every camera thread running, a record's
\* last_detection is assigned only after its event's create request has come
\* back and before any end request for the event is sent; an end request is sent
\* only for an event the API created; and no event gets a second end request.
C16_EventOrdering ==
    /\ [](\A id \in DOMAIN events : events[id].ends <= 1)
    /\ [][\A c \in Cameras :
            /\ Updates(c) =>
                   /\ detections[loc[c].label].id \in DOMAIN events
                   /\ events[detections[loc[c].label].id].ends = 0
            /\ (pc[c] = "iter" /\ pc'[c] = "put") =>
                   /\ loc'[c].detection.id \in DOMAIN events
                   /\ events'[loc'[c].detection.id].ends > events[loc'[c].detection.id].ends]_vars

\* C17 (SpecOne): restart_audio_pipe, in run and again in every recovery, goes
\* through without an error although the pipe exists, leaves ffmpeg running and
\* leaves pipe_file as it was; pipe_file is opened only by read_audio and only
\* when it is None, and closed only by run after its loop, so a thread opens the
\* pipe at most once.
C17_RestartStep ==
    /\ [](\A c \in Cameras : pipe_file[c] \in {"none", "open", "closed"})
    /\ [][\A c \in Cameras :
            /\ (pc[c] \in {"start", "broken"} /\ pc'[c] # pc[c]) =>
                   /\ pc'[c] = "loop"
                   /\ fifo'[c]
                   /\ audio_listener'[c] = "running"
                   /\ pipe_file'[c] = pipe_file[c]
            /\ pipe_file'[c] # pipe_file[c] =>
                   \/ pc[c] = "read" /\ pipe_file[c] = "none" /\ pipe_file'[c] = "open"
                   \/ pc[c] = "close" /\ pipe_file[c] = "open" /\ pipe_file'[c] = "closed"]_vars

\* after a recovery, with the pipe in place from the first call, the thread has
\* read a window through the handle it opened before
C17_Witness ==
    /\ loc["front"].restarted
    /\ pc["front"] = "handle"
    /\ fifo["front"]
    /\ pipe_file["front"] = "open"
    /\ audio_listener["front"] = "running"

\* C18 as stated (SpecOne): when handle_detection assigns last_detection of a
\* record, the clock is within max_not_heard of the value it replaces; and a
\* detection that comes later than that finds no record and sends a create
\* request.
C18_NoLateExtend ==
    [][\A c \in Cameras :
          /\ Updates(c) => now - detections[loc[c].label].last_detection <= MaxNotHeard
          /\ (pc[c] = "handle" /\ pc'[c] # "handle" /\ Unheard(Head(loc[c].queue), now))
                 => pc'[c] = "post"]_vars

\* C19 as stated (SpecOne), for a thread that has stopped: when run has returned,
\* every event the thread's camera created has had an end request.
C19_EndedAtStop ==
    \A c \in Cameras :
        pc[c] = "stopped" =>
            \A id \in DOMAIN events : events[id].camera = c => events[id].ends >= 1

\* C20 as stated (Spec): the events the API created that have had no end request
\* are the events whose records the dict holds (an event whose end request is
\* still out may have its record yet), and a record leaves its slot, cleared or
\* replaced, only once its event has had an end request.
C20_NoOrphans ==
    /\ [](\A id \in DOMAIN events :
             /\ events[id].ends = 0 => Held(id)
             /\ Held(id) => (events[id].ends = 0 \/ Ending(id)))
    /\ [][\A l \in Keys :
            (detections[l].kind = "event" /\ detections'[l].id # detections[l].id)
                => events[detections[l].id].ends >= 1]_vars

====
